---------------------------- MODULE Spec2Model ----------------------------
(***************************************************************************)
(* Natural-language-to-SQL backend: the sanitizer and validator of         *)
(* backend/ai_service.py and the request handlers of backend/app.py.       *)
(*                                                                         *)
(* A text is a sequence of characters, a character a one-character string. *)
(* Five characters are named by their code point: "U+0060" (the backtick), *)
(* "U+01F0" (j with caron), "U+030C" (combining caron), "U+0345"           *)
(* (combining ypogegrammeni), "U+0399" (Greek capital iota).               *)
(***************************************************************************)
EXTENDS Integers, Sequences, FiniteSets, TLC

VARIABLES provider, openai_key, gemini_key, handler, pc, prompt, raw, sql, valid, result,
          adapter_calls, http_requests, clean_calls, validate_calls,
          executed, status, depth, call_result

vars == << provider, openai_key, gemini_key, handler, pc, prompt, raw, sql, valid, result,
           adapter_calls, http_requests, clean_calls, validate_calls,
           executed, status, depth, call_result >>

(***************************************************************************)
(* Characters: str.upper(), str.strip(), and the classes \s, \w, \b of re. *)
(***************************************************************************)
ascii_lowercase == <<"a", "b", "c", "d", "e", "f", "g", "h", "i", "j", "k", "l", "m", "n", "o", "p", "q", "r", "s", "t", "u", "v", "w", "x", "y", "z">>

ascii_uppercase == <<"A", "B", "C", "D", "E", "F", "G", "H", "I", "J", "K", "L", "M", "N", "O", "P", "Q", "R", "S", "T", "U", "V", "W", "X", "Y", "Z">>

digits == {"0", "1", "2", "3", "4", "5", "6", "7", "8", "9"}

Range(s) == {s[i] : i \in 1..Len(s)}

Letters == Range(ascii_lowercase) \cup Range(ascii_uppercase)

Punctuation == {";", ":", "'", "U+0060", "(", ")", "*", "=", "-", "/", ",", "."}

Alphabet ==
    Letters \cup digits \cup Punctuation
        \cup {"_", " ", "\n", "\t", "U+01F0", "U+030C", "U+0345", "U+0399"}

\* str.isspace(), the class \s
isspace(c) == c \in {" ", "\n", "\t"}

\* the class \w of a str pattern: alphanumeric in Unicode, or the underscore
isword(c) == c \in Letters \cup digits \cup {"_", "U+01F0", "U+0399"}

IndexOf(c, s) == CHOOSE i \in 1..Len(s) : s[i] = c

\* str.upper() of one character; the result may be longer than one character
upper_table ==
    [c \in Alphabet |->
        IF c \in Range(ascii_lowercase)
            THEN << ascii_uppercase[IndexOf(c, ascii_lowercase)] >>
        ELSE IF c = "U+01F0" THEN << "J", "U+030C" >>
        ELSE IF c = "U+0345" THEN << "U+0399" >>
        ELSE << c >>]

\* simple case folding of re.IGNORECASE
fold_table ==
    [c \in Alphabet |->
        IF c \in Range(ascii_uppercase)
            THEN ascii_lowercase[IndexOf(c, ascii_uppercase)]
        ELSE c]

Min(S) == CHOOSE m \in S : \A n \in S : m <= n

Max(S) == CHOOSE m \in S : \A n \in S : m >= n

\* str.upper(): character by character, computed by halves
RECURSIVE upper(_)
upper(s) ==
    IF s = << >> THEN << >>
    ELSE IF Len(s) = 1 THEN upper_table[s[1]]
    ELSE upper(SubSeq(s, 1, Len(s) \div 2)) \o upper(SubSeq(s, Len(s) \div 2 + 1, Len(s)))

\* str.strip(): from the first to the last character that is not whitespace
strip(s) ==
    LET kept == {i \in 1..Len(s) : ~isspace(s[i])}
    IN  IF kept = {} THEN << >> ELSE SubSeq(s, Min(kept), Max(kept))

startswith(s, p) == Len(p) <= Len(s) /\ SubSeq(s, 1, Len(p)) = p

endswith(s, p) == Len(p) <= Len(s) /\ SubSeq(s, Len(s) - Len(p) + 1, Len(s)) = p

\* p occurs in s at index i, compared as the flags say
MatchAt(s, i, p, ignorecase) ==
    /\ i + Len(p) - 1 <= Len(s)
    /\ \A k \in 1..Len(p) :
          IF ignorecase THEN fold_table[s[i + k - 1]] = fold_table[p[k]]
          ELSE s[i + k - 1] = p[k]

\* the substring test "p in s"
contains(s, p) == \E i \in 1..Len(s) : MatchAt(s, i, p, FALSE)

\* str.count of a character
count(s, c) == Cardinality({i \in 1..Len(s) : s[i] = c})

\* the index of the first character at or after i that is not whitespace
skip_space(s, i) == Min({j \in i..Len(s) : ~isspace(s[j])} \cup {Len(s) + 1})

\* re.sub(p \s*, '', s) when eat_space, re.sub(p, '', s) otherwise: every
\* match found scanning from the left is removed
RECURSIVE re_sub_from(_, _, _, _, _)
re_sub_from(p, eat_space, s, ignorecase, i) ==
    LET found == {j \in i..Len(s) : MatchAt(s, j, p, ignorecase)}
        j == Min(found)
    IN  IF found = {} THEN SubSeq(s, i, Len(s))
        ELSE SubSeq(s, i, j - 1)
                 \o re_sub_from(p, eat_space, s, ignorecase,
                                IF eat_space THEN skip_space(s, j + Len(p)) ELSE j + Len(p))

re_sub(p, eat_space, s, ignorecase) == re_sub_from(p, eat_space, s, ignorecase, 1)

\* re.search(r'\b' + keyword + r'\b', s): keyword begins and ends with a word
\* character, so a boundary is the text's edge or a character outside \w
word_search(keyword, s) ==
    \E i \in 1..Len(s) :
        /\ MatchAt(s, i, keyword, FALSE)
        /\ (i = 1 \/ ~isword(s[i - 1]))
        /\ (i + Len(keyword) > Len(s) \/ ~isword(s[i + Len(keyword)]))

(***************************************************************************)
(* AIService: the denylist, the sanitizer and the validator.               *)
(***************************************************************************)
FORBIDDEN_KEYWORDS == <<
    <<"I", "N", "S", "E", "R", "T">>, <<"U", "P", "D", "A", "T", "E">>, <<"D", "E", "L", "E", "T", "E">>, <<"D", "R", "O", "P">>, <<"C", "R", "E", "A", "T", "E">>, <<"A", "L", "T", "E", "R">>,
    <<"T", "R", "U", "N", "C", "A", "T", "E">>, <<"G", "R", "A", "N", "T">>, <<"R", "E", "V", "O", "K", "E">>, <<"E", "X", "E", "C", "U", "T", "E">>, <<"E", "X", "E", "C">>,
    <<"M", "E", "R", "G", "E">>, <<"C", "A", "L", "L">>, <<"L", "O", "A", "D">>, <<"R", "E", "P", "L", "A", "C", "E">>, <<"L", "O", "C", "K">>, <<"U", "N", "L", "O", "C", "K">> >>

prefixes_to_remove == <<
    <<"H", "e", "r", "e", "'", "s", " ", "t", "h", "e", " ", "q", "u", "e", "r", "y", ":">>,
    <<"H", "e", "r", "e", " ", "i", "s", " ", "t", "h", "e", " ", "q", "u", "e", "r", "y", ":">>,
    <<"T", "h", "e", " ", "S", "Q", "L", " ", "q", "u", "e", "r", "y", " ", "i", "s", ":">>,
    <<"S", "Q", "L", " ", "Q", "u", "e", "r", "y", ":">>,
    <<"Q", "u", "e", "r", "y", ":">> >>

RECURSIVE remove_prefixes(_, _)
remove_prefixes(s, k) ==
    IF k > Len(prefixes_to_remove) THEN s
    ELSE remove_prefixes(re_sub(prefixes_to_remove[k], FALSE, s, TRUE), k + 1)

\* the indexes of the ';' after index e
semicolons_after(s, e) == {j \in (e + 1)..Len(s) : s[j] = ";"}

\* The match of SELECT\s+.+?; beginning at index i, as its last index, or 0.
\* \s+ takes the whole whitespace run and .+? then needs one character (any,
\* a ';' included) before the ';' that ends the match; failing that, \s+ gives
\* back one whitespace character to .+? and the match ends at the ';' that
\* follows the run.
select_end(s, i) ==
    IF ~(MatchAt(s, i, <<"S", "E", "L", "E", "C", "T">>, TRUE) /\ i + 6 <= Len(s) /\ isspace(s[i + 6]))
        THEN 0
    ELSE LET e == skip_space(s, i + 6)
         IN  IF semicolons_after(s, e) # {} THEN Min(semicolons_after(s, e))
             ELSE IF e <= Len(s) /\ s[e] = ";" /\ e - (i + 6) >= 2 THEN e
             ELSE 0

\* group 1 of the leftmost match, given the indexes where a match begins
leftmost_match(s, starts) ==
    IF starts = {} THEN << >>
    ELSE SubSeq(s, Min(starts), select_end(s, Min(starts)))

\* re.search(r'(SELECT\s+.+?;)', s, re.IGNORECASE | re.DOTALL): group 1 of the
\* leftmost match, or the empty text when there is none
select_match(s) == leftmost_match(s, {i \in 1..Len(s) : select_end(s, i) # 0})

\* lines 229-231: the fence markers, with the whitespace after them
remove_fences(s) ==
    re_sub(<<"U+0060", "U+0060", "U+0060">>, TRUE, re_sub(<<"U+0060", "U+0060", "U+0060", "m", "y", "s", "q", "l">>, TRUE, re_sub(<<"U+0060", "U+0060", "U+0060", "s", "q", "l">>, TRUE, s, TRUE), TRUE), FALSE)

\* lines 250-251: the match replaces the text when there is one
keep_match(match, s) == IF match # << >> THEN match ELSE s

\* lines 249-251
extract_select(s) == keep_match(select_match(s), s)

\* lines 254-255 left out: no terminator is appended
ensure_terminator_absent(s) == s

\* lines 254-255
ensure_terminator(s) == IF s # << >> /\ ~endswith(s, <<";">>) THEN s \o <<";">> ELSE s

clean_sql_response(text) ==
    ensure_terminator(extract_select(strip(remove_prefixes(remove_fences(text), 1))))

\* a message string: a fixed text followed by an interpolated text
Msg(text, arg) == [text |-> text, arg |-> arg]

\* first_keyword with the loop reporting the last keyword found, not the first
last_keyword(keywords, s) ==
    LET found == {k \in 1..Len(keywords) : word_search(keywords[k], s)}
    IN  IF found = {} THEN 0 ELSE Max(found)

\* the loop over the keywords: the index of the first keyword of the list
\* found as a whole word, 0 if none
first_keyword(keywords, s) ==
    LET found == {k \in 1..Len(keywords) : word_search(keywords[k], s)}
    IN  IF found = {} THEN 0 ELSE Min(found)

\* validate_sql_guards with the terminator count made before the keyword loop
validate_sql_count_first(text, sql_upper, k) ==
    IF text = << >> THEN << FALSE, Msg("Empty SQL query", << >>) >>
    ELSE IF startswith(sql_upper, <<"E", "R", "R", "O", "R", ":">>) THEN << FALSE, Msg("", text) >>
    ELSE IF ~startswith(strip(sql_upper), <<"S", "E", "L", "E", "C", "T">>)
        THEN << FALSE, Msg("Only SELECT queries are allowed", << >>) >>
    ELSE IF count(text, ";") > 1
        THEN << FALSE, Msg("Multiple SQL statements not allowed", << >>) >>
    ELSE IF k # 0
        THEN << FALSE, Msg("Forbidden operation detected: ", FORBIDDEN_KEYWORDS[k]) >>
    ELSE IF contains(text, <<"-", "-">>) \/ contains(text, <<"/", "*">>)
        THEN << FALSE, Msg("SQL comments not allowed", << >>) >>
    ELSE << TRUE, Msg("SQL query is valid", << >>) >>

\* the guards of validate_sql, lines 269-300, in their order: sql_upper is the
\* upper-cased text and k the keyword loop's first match
validate_sql_guards(text, sql_upper, k) ==
    IF text = << >> THEN << FALSE, Msg("Empty SQL query", << >>) >>
    ELSE IF startswith(sql_upper, <<"E", "R", "R", "O", "R", ":">>) THEN << FALSE, Msg("", text) >>
    ELSE IF ~startswith(strip(sql_upper), <<"S", "E", "L", "E", "C", "T">>)
        THEN << FALSE, Msg("Only SELECT queries are allowed", << >>) >>
    ELSE IF k # 0
        THEN << FALSE, Msg("Forbidden operation detected: ", FORBIDDEN_KEYWORDS[k]) >>
    ELSE IF count(text, ";") > 1
        THEN << FALSE, Msg("Multiple SQL statements not allowed", << >>) >>
    ELSE IF contains(text, <<"-", "-">>) \/ contains(text, <<"/", "*">>)
        THEN << FALSE, Msg("SQL comments not allowed", << >>) >>
    ELSE << TRUE, Msg("SQL query is valid", << >>) >>

validate_sql(text) ==
    validate_sql_guards(text, upper(text), first_keyword(FORBIDDEN_KEYWORDS, upper(text)))

\* lines 331-334 of generate_sql
generate_sql_return(cleaned, v) ==
    IF ~v[1] THEN << FALSE, cleaned, v[2] >>
    ELSE << TRUE, cleaned, Msg("SQL generated and validated successfully", << >>) >>

\* lines 328-334
generate_sql_validate(cleaned) == generate_sql_return(cleaned, validate_sql(cleaned))

\* generate_sql_finish without the return of lines 322-323
generate_sql_finish_unguarded(success, text, detail) ==
    generate_sql_validate(clean_sql_response(text))

\* lines 322-334 of generate_sql: what it returns once the adapter has returned
\* (success, result); the triple is (success, sql, message)
generate_sql_finish(success, text, detail) ==
    IF ~success THEN << FALSE, << >>, detail >>
    ELSE generate_sql_validate(clean_sql_response(text))

(***************************************************************************)
(* The provider adapters _call_openai and _call_gemini.                    *)
(***************************************************************************)
OPENAI_PLACEHOLDER == "your_openai_api_key_here"

GEMINI_PLACEHOLDER == "your_gemini_api_key_here"

\* key_configured without the comparison with the placeholder
key_configured_nonempty(p) ==
    IF p = "openai" THEN openai_key # "" ELSE gemini_key # ""

\* the credential guard that opens each adapter
key_configured(p) ==
    IF p = "openai" THEN openai_key # "" /\ openai_key # OPENAI_PLACEHOLDER
    ELSE gemini_key # "" /\ gemini_key # GEMINI_PLACEHOLDER

not_configured(p) ==
    IF p = "openai" THEN Msg("OpenAI API key not configured", << >>)
    ELSE Msg("Gemini API key not configured. Please add your GEMINI_API_KEY to the .env file.", << >>)

\* What requests.post did, as the adapter sees it: it timed out, raised another
\* RequestException, answered with a status other than 200, answered 200
\* without the expected fields, answered 200 with a candidate or choice that
\* lacks the text field, answered 200 with a text field that is not a string,
\* or answered 200 with a text.
ResponseKinds ==
    {"timeout", "request_exception", "status", "no_content", "nested_missing", "non_text", "ok"}

Response(kind, text) == [kind |-> kind, text |-> text]

\* the adapter's error messages, by provider
timed_out(p) ==
    IF p = "openai" THEN Msg("OpenAI API request timed out", << >>)
    ELSE Msg("Gemini API request timed out", << >>)

request_failed(p, e) ==
    IF p = "openai" THEN Msg("OpenAI API request failed: ", e)
    ELSE Msg("Gemini API request failed: ", e)

api_error(p, e) ==
    IF p = "openai" THEN Msg("OpenAI API error: ", e)
    ELSE Msg("Gemini API error: ", e)

no_content(p, e) ==
    IF p = "openai" THEN Msg("Unexpected error: ", e)
    ELSE Msg("No response generated by Gemini", << >>)

\* the handler of lines 139-140 and 214-215 that answers nothing
unexpected_silent(p, e) == Msg("", << >>)

\* except Exception, lines 139-140 and 214-215: what a KeyError, IndexError,
\* TypeError or AttributeError raised while the answer is read becomes
unexpected(p, e) == Msg("Unexpected error: ", e)

\* the adapter's (success, result) after requests.post, as (success, text,
\* message): result is the stripped text on success, the message otherwise
adapter_result(p, resp) ==
    CASE resp.kind = "ok" -> << TRUE, strip(resp.text), Msg("", << >>) >>
      [] resp.kind = "timeout" -> << FALSE, << >>, timed_out(p) >>
      [] resp.kind = "request_exception" -> << FALSE, << >>, request_failed(p, resp.text) >>
      [] resp.kind = "status" -> << FALSE, << >>, api_error(p, resp.text) >>
      [] resp.kind = "no_content" -> << FALSE, << >>, no_content(p, resp.text) >>
      [] resp.kind = "nested_missing" -> << FALSE, << >>, unexpected(p, resp.text) >>
      [] resp.kind = "non_text" -> << FALSE, << >>, unexpected(p, resp.text) >>

(***************************************************************************)
(* execute_manual_query's checks, lines 338-362 of app.py.                 *)
(***************************************************************************)
dangerous_keywords == <<
    <<"D", "R", "O", "P">>, <<"T", "R", "U", "N", "C", "A", "T", "E">>, <<"G", "R", "A", "N", "T">>, <<"R", "E", "V", "O", "K", "E">>, <<"A", "L", "T", "E", "R">>, <<"C", "R", "E", "A", "T", "E">> >>

\* manual_guards without lines 356-362: terminators are not counted
manual_guards_uncounted(sql_query, k) ==
    IF sql_query = << >> THEN << FALSE, Msg("Empty SQL query", << >>) >>
    ELSE IF k # 0
        THEN << FALSE, Msg("Dangerous operation detected: ", dangerous_keywords[k]) >>
    ELSE << TRUE, Msg("", << >>) >>

\* manual_guards with line 357 rejecting any terminator
manual_guards_no_terminator(sql_query, k) ==
    IF sql_query = << >> THEN << FALSE, Msg("Empty SQL query", << >>) >>
    ELSE IF k # 0
        THEN << FALSE, Msg("Dangerous operation detected: ", dangerous_keywords[k]) >>
    ELSE IF count(sql_query, ";") > 0
        THEN << FALSE, Msg("Multiple SQL statements not allowed", << >>) >>
    ELSE << TRUE, Msg("", << >>) >>

\* lines 338-362: k is the keyword loop's first match; the message of a
\* keyword match goes on ". Only SELECT, INSERT, UPDATE, DELETE are allowed."
manual_guards(sql_query, k) ==
    IF sql_query = << >> THEN << FALSE, Msg("Empty SQL query", << >>) >>
    ELSE IF k # 0
        THEN << FALSE, Msg("Dangerous operation detected: ", dangerous_keywords[k]) >>
    ELSE IF count(sql_query, ";") > 1
        THEN << FALSE, Msg("Multiple SQL statements not allowed", << >>) >>
    ELSE << TRUE, Msg("", << >>) >>

manual_checks(sql_query) ==
    manual_guards(sql_query, first_keyword(dangerous_keywords, upper(sql_query)))

(***************************************************************************)
(* Inputs.                                                                 *)
(***************************************************************************)
SENTINEL == <<"E", "R", "R", "O", "R", ":", " ", "C", "a", "n", "n", "o", "t", " ", "g", "e", "n", "e", "r", "a", "t", "e", " ", "a", " ", "v", "a", "l", "i", "d", " ", "S", "E", "L", "E", "C", "T", " ", "q", "u", "e", "r", "y">>

\* the pieces texts are built from: statement heads, separators, identifier
\* characters, denylisted words in lower and mixed case, punctuation, comment
\* and fence markers, a prefix, the sentinel and two characters that
\* str.upper() changes in class
Frags == {
    <<"S", "E", "L", "E", "C", "T", " ">>, <<"s", "e", "l", "e", "c", "t", " ", "x">>, <<"S", "E", "L", "E", "C", "T", " ", "x", ";">>, <<" ">>, <<";">>, <<"x">>, <<"(">>,
    <<"d", "r", "o", "p">>, <<"U", "p", "d", "a", "t", "e">>, <<"-", "-">>, <<"U+0060", "U+0060", "U+0060">>, <<"s", "q", "l">>, <<"Q", "u", "e", "r", "y", ":">>,
    << "U+0345" >>, << "U+01F0" >>, SENTINEL }

\* the most pieces in a text given to the service's own interface
MaxFrags == 2

\* the most pieces in a text of a request to the web application
MaxReqFrags == 1

RECURSIVE FragTexts(_)
FragTexts(n) ==
    IF n = 0 THEN {<< >>}
    ELSE FragTexts(n - 1) \cup {t \o f : t \in FragTexts(n - 1), f \in Frags}

\* whole texts: statements, wrapped statements and sentinel answers
Scenarios == {
    <<"U+0060", "U+0060", "U+0060", "s", "q", "l", " ", "S", "E", "L", "E", "C", "T", " ", "*", " ", "F", "R", "O", "M", " ", "e", "m", "p", "l", "o", "y", "e", "e", "s", "U+0060", "U+0060", "U+0060">>,
    <<"S", "E", "L", "E", "C", "T", " ", "*", " ", "F", "R", "O", "M", " ", "e", "m", "p", "l", "o", "y", "e", "e", "s", ";", " ", "D", "R", "O", "P", " ", "T", "A", "B", "L", "E", " ", "e", "m", "p", "l", "o", "y", "e", "e", "s", ";">>,
    SENTINEL \o <<";">>,
    <<"U", "P", "D", "A", "T", "E", " ", "e", "m", "p", "l", "o", "y", "e", "e", "s", " ", "S", "E", "T", " ", "s", "a", "l", "a", "r", "y", " ", "=", " ", "1", " ", "W", "H", "E", "R", "E", " ", "i", "d", " ", "=", " ", "1", ";">>,
    <<"D", "R", "O", "P", " ", "T", "A", "B", "L", "E", " ", "e", "m", "p", "l", "o", "y", "e", "e", "s", ";">>,
    <<"H", "e", "r", "e", "'", "s", " ", "t", "h", "e", " ", "q", "u", "e", "r", "y", ":", " ", "S", "E", "L", "E", "C", "T", " ", "n", "a", "m", "e", " ", "F", "R", "O", "M", " ", "e", "m", "p", "l", "o", "y", "e", "e", "s", " ", "W", "H", "E", "R", "E", " ", "i", "d", " ", "=", " ", "1", ";">>,
    <<" ", "S", "E", "L", "E", "C", "T", " ", "u", "p", "d", "a", "t", "e", "d", "_", "a", "t", " ", "F", "R", "O", "M", " ", "e", "m", "p", "l", "o", "y", "e", "e", "s", "\n">>,
    <<"S", "u", "r", "e", ":", " ", "S", "E", "L", "E", "C", "T", " ", "n", "a", "m", "e", " ", "F", "R", "O", "M", " ", "e", "m", "p", "l", "o", "y", "e", "e", "s">>,
    <<"S", "E", "L", "E", "C", "T", " ", "*", " ", "F", "R", "O", "M", " ", "l", "o", "g", " ", "W", "H", "E", "R", "E", " ", "a", "c", "t", "i", "o", "n", " ", "=", " ", "'", "u", "p", "d", "a", "t", "e", "'", ";">>,
    <<"S", "E", "L", "E", "C", "T", " ">> \o << "U+01F0" >> \o <<"d", "r", "o", "p", " ", "F", "R", "O", "M", " ", "t", ";">>,
    <<"S", "E", "L", "E", "C", "T", " ", "d", "r", "o", "p">> \o << "U+0345" >> \o <<" ", "F", "R", "O", "M", " ", "t", ";">>,
    <<"S", "E", "L", "E", "C", "T", " ", "1", ";", " ", "D", "R", "O", "P", " ", "T", "A", "B", "L", "E", " ", "t", ";", " ", "U", "P", "D", "A", "T", "E", " ", "t", " ", "S", "E", "T", " ", "x", " ", "=", " ", "1", " ", "-", "-", " ", "d", "o", "n", "e">>,
    <<"S", "H", "O", "W", " ", "T", "A", "B", "L", "E", "S", ";">>,
    <<"S", "E", "L", "E", "C", "T", "E", "D", " ", "F", "R", "O", "M", " ", "t", ";">>,
    <<"D", "E", "L", "E", "T", "E", " ", "F", "R", "O", "M", " ", "e", "m", "p", "l", "o", "y", "e", "e", "s", " ", "-", "-", " ", "W", "H", "E", "R", "E", " ", "i", "d", " ", "=", " ", "1">> }

Texts == FragTexts(MaxFrags) \cup Scenarios

ReqTexts == FragTexts(MaxReqFrags) \cup Scenarios

Prompts == {<< >>, <<" ">>, <<" ", "\n", "\t">>, <<"a">>, <<" ", "a", " ">>}

Responses(T) ==
    {Response(k, <<"e">>) : k \in ResponseKinds \ {"ok"}} \cup {Response("ok", t) : t \in T}

(***************************************************************************)
(* State.                                                                  *)
(***************************************************************************)
NoMsg == Msg("", << >>)

NoResult == << FALSE, << >>, NoMsg >>

NoValid == << FALSE, NoMsg >>

\* the adapter has not returned
NoCall == << FALSE, << >>, NoMsg >>

\* the next value of every local of a call; c is what the adapter returned
SetCall(h, p, pr, r, s, v, res, ac, hr, cc, vc, ex, st, d, c) ==
    /\ handler' = h
    /\ pc' = p
    /\ prompt' = pr
    /\ raw' = r
    /\ sql' = s
    /\ valid' = v
    /\ result' = res
    /\ adapter_calls' = ac
    /\ http_requests' = hr
    /\ clean_calls' = cc
    /\ validate_calls' = vc
    /\ executed' = ex
    /\ status' = st
    /\ depth' = d
    /\ call_result' = c
    /\ UNCHANGED << provider, openai_key, gemini_key >>

\* the same where no adapter has returned
Set(h, p, pr, r, s, v, res, ac, hr, cc, vc, ex, st, d) ==
    SetCall(h, p, pr, r, s, v, res, ac, hr, cc, vc, ex, st, d, NoCall)

\* no call is in progress
Idle == pc = "idle"

InitLocals ==
    /\ handler = "none"
    /\ pc = "idle"
    /\ prompt = << >>
    /\ raw = << >>
    /\ sql = << >>
    /\ valid = NoValid
    /\ result = NoResult
    /\ adapter_calls = 0
    /\ http_requests = 0
    /\ clean_calls = 0
    /\ validate_calls = 0
    /\ executed = << >>
    /\ status = 0
    /\ depth = 0
    /\ call_result = NoCall

\* AIService.__init__: the provider name is lower-cased, anything but
\* "openai" selects the Gemini adapter
Init ==
    /\ provider \in {"openai", "gemini"}
    /\ openai_key \in {"", OPENAI_PLACEHOLDER, "sk-live"}
    /\ gemini_key \in {"", GEMINI_PLACEHOLDER, "sk-live"}
    /\ InitLocals

\* the adapter generate_sql selects, lines 317-320
active == IF provider = "openai" THEN "openai" ELSE "gemini"

(***************************************************************************)
(* generate_sql, up to the outbound request (lines 313-320 and the         *)
(* adapter's credential guard): h is the caller, st the status a failure   *)
(* makes the caller answer with.                                           *)
(***************************************************************************)
\* blank without the strip() test: only the empty prompt is blank
blank_unstripped(p) == p = << >>

\* the guard of line 313: not prompt or not prompt.strip()
blank(p) == p = << >> \/ strip(p) = << >>

GenerateSqlBegin(h, p, st) ==
    IF blank(p)
        THEN Set(h, "done", p, << >>, << >>, NoValid,
                 << FALSE, << >>, Msg("Empty prompt provided", << >>) >>,
                 0, 0, 0, 0, << >>, st, 0)
    ELSE IF ~key_configured(active)
        THEN SetCall(h, "done", p, << >>, << >>, NoValid,
                     << FALSE, << >>, not_configured(active) >>,
                     1, 0, 0, 0, << >>, st, 0, << FALSE, << >>, not_configured(active) >>)
    ELSE Set(h, "http", p, << >>, << >>, NoValid, NoResult,
             1, 1, 0, 0, << >>, 0, 0)

\* convert_to_sql called on its own, as the module's self-test does
ConvertToSqlCall(P) ==
    \E p \in P :
        /\ Idle
        /\ GenerateSqlBegin("convert_to_sql", p, 0)

\* POST /api/prompt, lines 184-218 of app.py
ProcessPromptRequest(P) ==
    \E has_json \in BOOLEAN, p_in \in P, schema_ok \in BOOLEAN :
        /\ Idle
        /\ IF ~has_json
               THEN Set("process_prompt", "done", << >>, << >>, << >>, NoValid, NoResult,
                        0, 0, 0, 0, << >>, 400, 0)
           ELSE IF strip(p_in) = << >>
               THEN Set("process_prompt", "done", strip(p_in), << >>, << >>, NoValid,
                        NoResult, 0, 0, 0, 0, << >>, 400, 0)
           ELSE IF ~schema_ok
               THEN Set("process_prompt", "done", strip(p_in), << >>, << >>, NoValid,
                        NoResult, 0, 0, 0, 0, << >>, 500, 0)
           ELSE GenerateSqlBegin("process_prompt", strip(p_in), 400)

\* process_prompt_step3 without the return of lines 220-226
process_prompt_step3_unguarded(ai_success, sql_query) ==
    [pc |-> "db", status |-> 0, executed |-> << sql_query >>]

\* process_prompt once convert_to_sql has returned, lines 220-229: where it goes
\* on and what it hands to execute_sql
process_prompt_step3(ai_success, sql_query) ==
    IF ~ai_success THEN [pc |-> "done", status |-> 400, executed |-> << >>]
    ELSE [pc |-> "db", status |-> 0, executed |-> << sql_query >>]

\* what the caller of generate_sql does with its result g
after_generate(h, g) ==
    IF h = "process_prompt" THEN process_prompt_step3(g[1], g[2])
    ELSE [pc |-> "done", status |-> 0, executed |-> << >>]

\* The provider's answer arrives: the adapter returns a, generate_sql sanitizes
\* and validates and returns g, and process_prompt goes on to execute_sql or
\* answers.
HttpRespond(R) ==
    /\ pc = "http"
    /\ \E resp \in R :
        \E a \in {adapter_result(active, resp)} :
            \E g \in {generate_sql_finish(a[1], a[2], a[3])} :
                \E next \in {after_generate(handler, g)} :
                       SetCall(handler, next.pc, prompt, a[2], g[2],
                               IF a[1] THEN validate_sql(g[2]) ELSE NoValid, g,
                               adapter_calls, http_requests,
                               IF a[1] THEN 1 ELSE 0, IF a[1] THEN 1 ELSE 0,
                               next.executed, next.status, 0, a)

\* execute_raw_query, lines 285-293, given validate_sql's result v: (validation,
\* where it goes on, status, what it hands to execute_sql)
execute_raw_query_step(v, sql_query) ==
    IF ~v[1] THEN [valid |-> v, pc |-> "done", status |-> 400, executed |-> << >>]
    ELSE [valid |-> v, pc |-> "db", status |-> 0, executed |-> << sql_query >>]

\* POST /api/raw-query
ExecuteRawQueryRequest(T) ==
    \E has_json \in BOOLEAN, sql_in \in T :
        /\ Idle
        /\ IF ~has_json \/ sql_in = << >>
               THEN Set("execute_raw_query", "done", << >>, << >>, << >>, NoValid, NoResult,
                        0, 0, 0, 0, << >>, 400, 0)
           ELSE \E step \in {execute_raw_query_step(validate_sql(strip(sql_in)), strip(sql_in))} :
                    Set("execute_raw_query", step.pc, << >>, sql_in, strip(sql_in),
                        step.valid, NoResult, 0, 0, 0, 1, step.executed, step.status, 0)

\* execute_manual_query, lines 338-365, given its checks' result v: (checks,
\* where it goes on, status, what it hands to execute_manual_sql)
execute_manual_query_step(v, sql_query) ==
    IF ~v[1] THEN [valid |-> v, pc |-> "done", status |-> 400, executed |-> << >>]
    ELSE [valid |-> v, pc |-> "db", status |-> 0, executed |-> << sql_query >>]

\* POST /api/execute-manual
ExecuteManualQueryRequest(T) ==
    \E has_json \in BOOLEAN, sql_in \in T :
        /\ Idle
        /\ IF ~has_json \/ sql_in = << >>
               THEN Set("execute_manual_query", "done", << >>, << >>, << >>, NoValid,
                        NoResult, 0, 0, 0, 0, << >>, 400, 0)
           ELSE \E step \in {execute_manual_query_step(manual_checks(strip(sql_in)), strip(sql_in))} :
                    Set("execute_manual_query", step.pc, << >>, sql_in, strip(sql_in),
                        step.valid, NoResult, 0, 0, 0, 1, step.executed, step.status, 0)

\* execute_sql or execute_manual_sql returns (success, results, message) and the
\* handler answers
DbRespond ==
    \E success \in BOOLEAN :
        /\ pc = "db"
        /\ pc' = "done"
        /\ status' = IF success THEN 200 ELSE 400
        /\ UNCHANGED << provider, openai_key, gemini_key, handler, prompt, raw, sql,
                        valid, result, adapter_calls, http_requests, clean_calls,
                        validate_calls, executed, depth, call_result >>

\* ai_service.clean_sql_response called on a text
CleanCall(T) ==
    \E x \in T :
        /\ Idle
        /\ Set("clean_sql_response", "done", << >>, x, clean_sql_response(x), NoValid,
               NoResult, 0, 0, 1, 0, << >>, 0, 1)

\* ... and called again on what it returned
CleanAgain ==
    /\ pc = "done"
    /\ handler = "clean_sql_response"
    /\ depth = 1
    /\ Set("clean_sql_response", "done", << >>, sql, clean_sql_response(sql), NoValid,
           NoResult, 0, 0, 2, 0, << >>, 0, 2)

\* ai_service.validate_sql called on a text
ValidateCall(T) ==
    \E x \in T :
        /\ Idle
        /\ Set("validate_sql", "done", << >>, << >>, x, validate_sql(x), NoResult,
               0, 0, 0, 1, << >>, 0, 0)

\* the call returns to its caller and its locals are gone
Return ==
    /\ pc = "done"
    /\ Set("none", "idle", << >>, << >>, << >>, NoValid, NoResult, 0, 0, 0, 0, << >>, 0, 0)

\* the web application
Next ==
    \/ ProcessPromptRequest(Prompts)
    \/ ConvertToSqlCall(Prompts)
    \/ HttpRespond(Responses(ReqTexts))
    \/ ExecuteRawQueryRequest(ReqTexts)
    \/ ExecuteManualQueryRequest(ReqTexts)
    \/ DbRespond
    \/ Return

Spec == Init /\ [][Next]_vars

\* the service's own interface, with one configured provider
InitApi ==
    /\ provider = "gemini"
    /\ openai_key = ""
    /\ gemini_key = "sk-live"
    /\ InitLocals

NextApi ==
    \/ CleanCall(Texts)
    \/ CleanAgain
    \/ ValidateCall(Texts)
    \/ ConvertToSqlCall({<<"a">>})
    \/ HttpRespond(Responses(Texts))
    \/ ExecuteManualQueryRequest(Texts)
    \/ DbRespond
    \/ Return

SpecApi == InitApi /\ [][NextApi]_vars


\* generate_sql and its callers, with a provider that always answers:
\* requests.post is called with timeout=30, so it returns or raises
NextLive ==
    \/ ProcessPromptRequest(Prompts)
    \/ ConvertToSqlCall(Prompts)
    \/ HttpRespond(Responses(FragTexts(1)))
    \/ DbRespond
    \/ Return

SpecLive == Init /\ [][NextLive]_vars /\ WF_vars(HttpRespond(Responses(FragTexts(1))))
(***************************************************************************)
(* Properties.  The predicates below read the text itself; they do not go  *)
(* through validate_sql or clean_sql_response.                             *)
(***************************************************************************)
\* keyword occurs in s at index i in any case, between characters outside \w
WholeWordAt(s, i, keyword) ==
    /\ MatchAt(s, i, keyword, TRUE)
    /\ (i = 1 \/ ~isword(s[i - 1]))
    /\ (i + Len(keyword) > Len(s) \/ ~isword(s[i + Len(keyword)]))

\* s contains a keyword of the strict denylist as a whole word, in any case
DenylistedWord(s) ==
    \E k \in 1..Len(FORBIDDEN_KEYWORDS) :
        \E i \in 1..Len(s) : WholeWordAt(s, i, FORBIDDEN_KEYWORDS[k])

\* s contains a keyword of the strict denylist, in any case, inside a longer word
DenylistedSubstring(s) ==
    \E k \in 1..Len(FORBIDDEN_KEYWORDS) :
        \E i \in 1..Len(s) :
            /\ MatchAt(s, i, FORBIDDEN_KEYWORDS[k], TRUE)
            /\ ~WholeWordAt(s, i, FORBIDDEN_KEYWORDS[k])

\* the upper-cased text contains a keyword of the strict denylist as a whole word
DenylistedWordUpper(s) ==
    \E k \in 1..Len(FORBIDDEN_KEYWORDS) :
        \E i \in 1..Len(upper(s)) : WholeWordAt(upper(s), i, FORBIDDEN_KEYWORDS[k])

CommentMarker(s) ==
    \E i \in 1..(Len(s) - 1) :
        \/ (s[i] = "-" /\ s[i + 1] = "-")
        \/ (s[i] = "/" /\ s[i + 1] = "*")

Terminators(s) == {i \in 1..Len(s) : s[i] = ";"}

AllSpace(s) == \A i \in 1..Len(s) : isspace(s[i])

\* a call of validate_sql has returned: sql is its argument, valid its result
StrictValidated == handler = "validate_sql" /\ pc = "done"

\* execute_manual_query has made its checks on sql
ManualValidated ==
    handler = "execute_manual_query" /\ pc \in {"db", "done"} /\ validate_calls = 1

\* generate_sql has sanitized and validated the provider's text raw
Generated == handler = "convert_to_sql" /\ pc = "done" /\ clean_calls = 1

\* C1: every candidate that contains a keyword of the strict denylist as a whole
\* word, in any case and between any characters outside \w, is Invalid for
\* validate_sql.
C1_DenylistedWordInvalid == (StrictValidated /\ DenylistedWord(sql)) => ~valid[1]

\* C2: a candidate with more than one ';' is Invalid under both policies:
\* validate_sql rejects it, and execute_manual_query rejects it and hands
\* nothing to execute_manual_sql.
C2_MultipleTerminatorsInvalid ==
    ((StrictValidated \/ ManualValidated) /\ Cardinality(Terminators(sql)) > 1)
        => (~valid[1] /\ executed = << >>)

C2_Witness ==
    /\ ManualValidated
    /\ Cardinality(Terminators(sql)) > 1
    /\ valid = << FALSE, Msg("Multiple SQL statements not allowed", << >>) >>

\* C3: the execution collaborator is called at most once in a request, with the
\* statement in play, and only when the validator of the handler's policy has
\* accepted that statement in this request; process_prompt calls it only when
\* generate_sql succeeded, so never after a provider failure or a rejection.
C3_ExecuteOnlyAccepted ==
    executed # << >> =>
        /\ executed = << sql >>
        /\ validate_calls = 1
        /\ valid[1]
        /\ handler \in {"process_prompt", "execute_raw_query", "execute_manual_query"}
        /\ handler = "process_prompt" => (result[1] /\ result[2] = sql /\ http_requests = 1)
        /\ handler \in {"process_prompt", "execute_raw_query"} => validate_sql(sql)[1]
        /\ handler = "execute_manual_query" => manual_checks(sql)[1]

C3_Witness ==
    /\ handler = "process_prompt"
    /\ pc = "done"
    /\ status = 200
    /\ executed = << sql >>
    /\ valid[1]

\* C4: when the provider's text begins with the sentinel, with or without a
\* terminator after it, generate_sql returns a rejection whose reason carries
\* the sentinel, and never Accepted.
C4_SentinelRejected ==
    (Generated /\ startswith(raw, SENTINEL)) =>
        (~result[1] /\ result[3].text = "" /\ startswith(result[3].arg, SENTINEL))

\* C5: a candidate that begins with the sentinel is Invalid under both policies,
\* and the reason is the candidate's own text, the sentinel.
C5_SentinelInvalidAnyPolicy ==
    ((StrictValidated \/ ManualValidated) /\ startswith(sql, SENTINEL)) =>
        (~valid[1] /\ valid[2] = Msg("", sql) /\ executed = << >>)

\* C6: a candidate in which denylisted keywords occur only inside longer words,
\* never as whole words, is not rejected by the denylist guard.
C6_SubstringNotForbidden ==
    (StrictValidated /\ DenylistedSubstring(sql) /\ ~DenylistedWord(sql)) =>
        valid[2].text # "Forbidden operation detected: "

\* C7: clean_sql_response is idempotent: applied to its own result, it returns
\* that result.
C7_CleanIdempotent == (handler = "clean_sql_response" /\ depth = 2) => sql = raw

\* a single retrieval statement with no wrapping: SELECT and whitespace first,
\* no whitespace around it, no fence marker, no explanatory prefix, and no ';'
\* except as its last character
Unwrapped(s) ==
    /\ Len(s) > 6
    /\ MatchAt(s, 1, <<"S", "E", "L", "E", "C", "T">>, TRUE)
    /\ isspace(s[7])
    /\ ~isspace(s[Len(s)])
    /\ Terminators(s) \subseteq {Len(s)}
    /\ \A i \in 1..Len(s) : ~MatchAt(s, i, <<"U+0060", "U+0060", "U+0060">>, FALSE)
    /\ \A k \in 1..Len(prefixes_to_remove) :
          \A i \in 1..Len(s) : ~MatchAt(s, i, prefixes_to_remove[k], TRUE)

WithTerminator(s) == IF s[Len(s)] = ";" THEN s ELSE s \o << ";" >>

\* every denylisted word of s stands between single quotes, as a string literal
QuotedOnly(s) ==
    \A k \in 1..Len(FORBIDDEN_KEYWORDS) :
        \A i \in 1..Len(s) :
            WholeWordAt(s, i, FORBIDDEN_KEYWORDS[k]) =>
                /\ i > 1
                /\ s[i - 1] = "'"
                /\ i + Len(FORBIDDEN_KEYWORDS[k]) <= Len(s)
                /\ s[i + Len(FORBIDDEN_KEYWORDS[k])] = "'"

\* C8, as stated: for a well-formed single retrieval statement with no wrapping
\* (here: no comment marker, and denylisted words in string literals only),
\* clean_sql_response returns it unchanged but for a missing terminator and
\* validate_sql then returns Valid.
C8_RoundTripValid ==
    (Generated /\ Unwrapped(raw) /\ ~CommentMarker(raw) /\ QuotedOnly(raw)) =>
        (sql = WithTerminator(raw) /\ valid[1])

\* C8, amended: for a single retrieval statement with no wrapping,
\* clean_sql_response returns it unchanged but for a missing terminator, and
\* validate_sql then returns Valid exactly when the upper-cased statement has
\* no keyword of the strict denylist as a whole word and the statement has no
\* comment marker.
C8_RoundTrip ==
    (Generated /\ Unwrapped(raw)) =>
        /\ sql = WithTerminator(raw)
        /\ valid[1] <=> ~(DenylistedWordUpper(raw) \/ CommentMarker(raw))

C8_Witness ==
    /\ Generated
    /\ Unwrapped(raw)
    /\ raw = <<"S", "E", "L", "E", "C", "T", " ", "x">>
    /\ sql = <<"S", "E", "L", "E", "C", "T", " ", "x", ";">>
    /\ valid[1]
    /\ result[1]

\* a SELECT statement followed, after its ';', by more text that has another ';'
\* and, upper-cased, a keyword of the strict denylist as a whole word
Stacked(s) ==
    /\ MatchAt(s, 1, <<"S", "E", "L", "E", "C", "T">>, TRUE)
    /\ Cardinality(Terminators(s)) > 1
    /\ \E k \in 1..Len(FORBIDDEN_KEYWORDS) :
          \E i \in 1..Len(upper(s)) :
              /\ WholeWordAt(upper(s), i, FORBIDDEN_KEYWORDS[k])
              /\ \E j \in 1..(i - 1) : upper(s)[j] = ";"

\* C9, as stated: a SELECT statement followed by a second statement with a
\* denylisted keyword is Invalid and the reason is that of multiple statements.
C9_StackedReasonMultiple ==
    (StrictValidated /\ Stacked(sql)) =>
        valid = << FALSE, Msg("Multiple SQL statements not allowed", << >>) >>

\* C9, amended: a SELECT statement followed by a second statement with a
\* denylisted keyword is Invalid and the reason names the forbidden keyword:
\* the keyword loop runs before the terminators are counted.
C9_StackedReasonKeyword ==
    (StrictValidated /\ Stacked(sql)) =>
        (~valid[1] /\ valid[2].text = "Forbidden operation detected: ")

C9_Witness ==
    /\ StrictValidated
    /\ sql = <<"S", "E", "L", "E", "C", "T", " ", "*", " ", "F", "R", "O", "M", " ", "e", "m", "p", "l", "o", "y", "e", "e", "s", ";", " ", "D", "R", "O", "P", " ", "T", "A", "B", "L", "E", " ", "e", "m", "p", "l", "o", "y", "e", "e", "s", ";">>
    /\ valid = << FALSE, Msg("Forbidden operation detected: ", <<"D", "R", "O", "P">>) >>

\* C10: a request whose user text is empty or blank is rejected without any
\* call of the provider adapter: generate_sql returns its empty-prompt
\* rejection, and process_prompt answers 400 before it calls generate_sql.
C10_BlankPromptNoAdapterCall ==
    (handler \in {"process_prompt", "convert_to_sql"} /\ AllSpace(prompt)) =>
        /\ pc = "done"
        /\ ~result[1]
        /\ adapter_calls = 0
        /\ http_requests = 0
        /\ executed = << >>
        /\ handler = "convert_to_sql" =>
              result = << FALSE, << >>, Msg("Empty prompt provided", << >>) >>
        /\ handler = "process_prompt" => status = 400

C10_Witness ==
    /\ handler = "convert_to_sql"
    /\ pc = "done"
    /\ prompt = <<" ", "\n", "\t">>
    /\ key_configured(active)
    /\ adapter_calls = 0
    /\ result = << FALSE, << >>, Msg("Empty prompt provided", << >>) >>

\* s contains a keyword of the manual denylist as a whole word, in any case
DangerousWord(s) ==
    \E k \in 1..Len(dangerous_keywords) :
        \E i \in 1..Len(s) : WholeWordAt(s, i, dangerous_keywords[k])

\* C11: under execute_manual_query's checks a single row-level mutation
\* statement is Valid and goes to execute_manual_sql, and every statement that
\* contains DROP, TRUNCATE, GRANT, REVOKE, ALTER or CREATE as a whole word, in
\* any case, is Invalid and goes nowhere.
C11_ManualPolicy ==
    ManualValidated =>
        /\ sql = <<"U", "P", "D", "A", "T", "E", " ", "e", "m", "p", "l", "o", "y", "e", "e", "s", " ", "S", "E", "T", " ", "s", "a", "l", "a", "r", "y", " ", "=", " ", "1", " ", "W", "H", "E", "R", "E", " ", "i", "d", " ", "=", " ", "1", ";">> =>
              (valid[1] /\ executed = << sql >>)
        /\ DangerousWord(sql) => (~valid[1] /\ executed = << >>)

\* generate_sql has called the adapter of the active provider and the adapter
\* has returned call_result
AdapterReturned ==
    /\ handler \in {"process_prompt", "convert_to_sql"}
    /\ adapter_calls = 1
    /\ pc # "http"

\* the details an adapter gives when it fails
ProviderErrors(p) ==
    {not_configured(p), timed_out(p), request_failed(p, <<"e">>), api_error(p, <<"e">>),
     no_content(p, <<"e">>), Msg("Unexpected error: ", <<"e">>)}

\* C12: whenever the adapter returns an error (not configured, timeout, status
\* other than 200, transport fault, empty response), generate_sql returns a
\* failure with an empty statement and the adapter's detail as its reason, and
\* in that invocation neither clean_sql_response nor validate_sql is called and
\* nothing is executed.
C12_ProviderFailedSkipsPipeline ==
    (AdapterReturned /\ ~call_result[1]) =>
        /\ call_result[3] \in ProviderErrors(active)
        /\ result = << FALSE, << >>, call_result[3] >>
        /\ clean_calls = 0
        /\ validate_calls = 0
        /\ sql = << >>
        /\ executed = << >>

C12_Witness ==
    /\ handler = "process_prompt"
    /\ pc = "done"
    /\ http_requests = 1
    /\ call_result = << FALSE, << >>, Msg("Gemini API request timed out", << >>) >>
    /\ result = << FALSE, << >>, Msg("Gemini API request timed out", << >>) >>
    /\ clean_calls = 0
    /\ validate_calls = 0
    /\ status = 400

\* C13: generate_sql returns Accepted only if validate_sql accepted the
\* sanitized candidate: an Accepted statement begins with SELECT in any case,
\* has exactly one ';', its last character, no keyword of the strict denylist
\* as a whole word and no comment marker; every other outcome after a provider
\* answer is a rejection that carries the sanitized candidate and the
\* validator's reason.
C13_AcceptedOnlyIfValid ==
    Generated =>
        /\ result[2] = clean_sql_response(raw)
        /\ result[1] =>
              /\ valid[1]
              /\ MatchAt(result[2], 1, <<"S", "E", "L", "E", "C", "T">>, TRUE)
              /\ Terminators(result[2]) = {Len(result[2])}
              /\ ~DenylistedWord(result[2])
              /\ ~CommentMarker(result[2])
        /\ ~result[1] => (~valid[1] /\ result[3] = valid[2])

\* the three outcomes of generate_sql once its adapter has returned
Accepted == result[1] /\ call_result[1] /\ valid[1] /\ result[2] # << >>

ProviderFailed == ~result[1] /\ ~call_result[1] /\ result[2] = << >>

\* the rejected statement is empty when the provider's text was
RejectedBySafety == ~result[1] /\ call_result[1] /\ ~valid[1] /\ result[3] = valid[2]

NonEmpty(message) == message.text # "" \/ message.arg # << >>

OneOutcome ==
    AdapterReturned =>
        /\ Cardinality({o \in {"a", "f", "r"} :
                \/ (o = "a" /\ Accepted)
                \/ (o = "f" /\ ProviderFailed)
                \/ (o = "r" /\ RejectedBySafety)}) = 1
        /\ ~Accepted => NonEmpty(result[3])

\* C14: whatever the provider does (timeout, network fault, status other than
\* 200, status 200 with missing, nested-missing or non-text fields, status 200
\* with a text), generate_sql returns, with exactly one of the outcomes
\* Accepted, ProviderFailed and RejectedBySafety, and every outcome but
\* Accepted carries a non-empty reason.
C14_AlwaysOneOutcome == [](OneOutcome) /\ (pc = "http" ~> AdapterReturned)

C14_Witness ==
    /\ handler = "convert_to_sql"
    /\ pc = "done"
    /\ provider = "gemini"
    /\ http_requests = 1
    /\ ProviderFailed
    /\ result = << FALSE, << >>, Msg("Unexpected error: ", <<"e">>) >>

\* the credential of the active backend and the placeholder it may hold
ActiveKey == IF provider = "openai" THEN openai_key ELSE gemini_key

ActivePlaceholder ==
    IF provider = "openai" THEN "your_openai_api_key_here" ELSE "your_gemini_api_key_here"

\* C15: an invocation of generate_sql calls one adapter at most once and makes
\* at most one outbound request; after a timeout, a transport fault or a status
\* other than 200 it has ended with that one request made; with a missing or
\* placeholder credential of the active backend it makes no request at all.
C15_AtMostOneRequest ==
    /\ adapter_calls <= 1
    /\ http_requests <= adapter_calls
    /\ ActiveKey \in {"", ActivePlaceholder} => http_requests = 0
    /\ (AdapterReturned /\ ~call_result[1]) =>
          (pc = "done" /\ http_requests = (IF call_result[3] = not_configured(active) THEN 0 ELSE 1))

C15_Witness ==
    /\ handler = "process_prompt"
    /\ pc = "done"
    /\ ActiveKey = ActivePlaceholder
    /\ adapter_calls = 1
    /\ http_requests = 0
    /\ result = << FALSE, << >>, not_configured(active) >>
    /\ status = 400

\* the keywords of the strict denylist, by index, that the upper-cased text u
\* has as whole words
WordsFound(u) ==
    {k \in 1..Len(FORBIDDEN_KEYWORDS) :
        \E i \in 1..Len(u) : WholeWordAt(u, i, FORBIDDEN_KEYWORDS[k])}

\* the guards of the validator that a candidate fails, numbered in the order
\* empty, sentinel, leading verb, denylisted keyword, multiple terminators,
\* comment markers
FailingGuards(s) ==
    {g \in 1..6 :
        \/ (g = 1 /\ s = << >>)
        \/ (g = 2 /\ MatchAt(s, 1, <<"E", "R", "R", "O", "R", ":">>, TRUE))
        \/ (g = 3 /\ ~MatchAt(strip(s), 1, <<"S", "E", "L", "E", "C", "T">>, TRUE))
        \/ (g = 4 /\ WordsFound(upper(s)) # {})
        \/ (g = 5 /\ Cardinality(Terminators(s)) > 1)
        \/ (g = 6 /\ CommentMarker(s))}

\* the reason guard g gives for candidate s
GuardReason(g, s) ==
    CASE g = 1 -> Msg("Empty SQL query", << >>)
      [] g = 2 -> Msg("", s)
      [] g = 3 -> Msg("Only SELECT queries are allowed", << >>)
      [] g = 4 -> Msg("Forbidden operation detected: ",
                      FORBIDDEN_KEYWORDS[Min(WordsFound(upper(s)))])
      [] g = 5 -> Msg("Multiple SQL statements not allowed", << >>)
      [] g = 6 -> Msg("SQL comments not allowed", << >>)

\* C16: validate_sql evaluates its guards in the order empty, sentinel, leading
\* verb, denylisted keyword, multiple terminators, comment markers and stops at
\* the first that fails: the reason it returns is that of the earliest failing
\* guard and, for the denylist guard, names the first keyword of the denylist
\* that the candidate has; a candidate failing no guard is Valid.
C16_GuardOrder ==
    StrictValidated =>
        IF FailingGuards(sql) = {} THEN valid[1]
        ELSE valid = << FALSE, GuardReason(Min(FailingGuards(sql)), sql) >>

C16_Witness ==
    /\ StrictValidated
    /\ sql = <<"S", "E", "L", "E", "C", "T", " ", "1", ";", " ", "D", "R", "O", "P", " ", "T", "A", "B", "L", "E", " ", "t", ";", " ", "U", "P", "D", "A", "T", "E", " ", "t", " ", "S", "E", "T", " ", "x", " ", "=", " ", "1", " ", "-", "-", " ", "d", "o", "n", "e">>
    /\ FailingGuards(sql) = {4, 5, 6}
    /\ valid = << FALSE, Msg("Forbidden operation detected: ", <<"U", "P", "D", "A", "T", "E">>) >>

\* the first token of the candidate, surrounding whitespace aside, is verb in
\* any case
FirstTokenIs(s, verb) == strip(s) # << >> /\ WholeWordAt(strip(s), 1, verb)

\* the leading verbs of the manual policy
ManualVerbs == {<<"S", "E", "L", "E", "C", "T">>, <<"I", "N", "S", "E", "R", "T">>, <<"U", "P", "D", "A", "T", "E">>, <<"D", "E", "L", "E", "T", "E">>}

\* C17: under either policy a candidate whose first token is not an allowed
\* leading verb is Invalid: validate_sql rejects a candidate whose first token
\* is not SELECT, and execute_manual_query rejects, and passes nothing on for, a
\* candidate whose first token is none of SELECT, INSERT, UPDATE, DELETE.
C17_LeadingVerb ==
    /\ (StrictValidated /\ ~FirstTokenIs(sql, <<"S", "E", "L", "E", "C", "T">>)) => ~valid[1]
    /\ (ManualValidated /\ \A verb \in ManualVerbs : ~FirstTokenIs(sql, verb)) =>
          (~valid[1] /\ executed = << >>)

\* C18: a candidate with an inline or block comment marker anywhere is Invalid
\* under both policies, for validate_sql and for execute_manual_query alike,
\* and no statement with a comment marker reaches the execution collaborator.
C18_CommentsInvalid ==
    /\ ((StrictValidated \/ ManualValidated) /\ CommentMarker(sql)) => ~valid[1]
    /\ \A i \in 1..Len(executed) : ~CommentMarker(executed[i])

\* C19: every candidate that validate_sql returns Valid is also accepted by
\* the checks of execute_manual_query, made as the handler makes them on the
\* stripped text; the strict denylist has every keyword of the manual one.
C19_StrictImpliesManual ==
    /\ Range(dangerous_keywords) \subseteq Range(FORBIDDEN_KEYWORDS)
    /\ (StrictValidated /\ valid[1]) => manual_checks(strip(sql))[1]

C19_Witness ==
    /\ StrictValidated
    /\ valid = << TRUE, Msg("SQL query is valid", << >>) >>
    /\ sql = <<"s", "e", "l", "e", "c", "t", " ", "x">> \o << "U+01F0" >>
    /\ manual_checks(strip(sql)) = << TRUE, Msg("", << >>) >>

\* where s has SELECT, in any case, followed by whitespace
SelectStarts(s) ==
    {i \in 1..Len(s) :
        MatchAt(s, i, <<"S", "E", "L", "E", "C", "T">>, TRUE) /\ i + 6 <= Len(s) /\ isspace(s[i + 6])}

\* the terminators that follow the first SELECT of s
TerminatorsAfterSelect(s) == {j \in Terminators(s) : j > Min(SelectStarts(s))}

\* s contains a SELECT statement ended by a terminator
HasTerminatedSelect(s) == SelectStarts(s) # {} /\ TerminatorsAfterSelect(s) # {}

\* s up to and including the first terminator that follows its first SELECT
HeadOf(s) == SubSeq(s, 1, Min(TerminatorsAfterSelect(s)))

\* texts to put after the head
Tails == {<< >>, <<" ", "D", "R", "O", "P", " ", "T", "A", "B", "L", "E", " ", "e", "m", "p", "l", "o", "y", "e", "e", "s", ";">>, <<"x">>, <<"\n", "H", "o", "p", "e", " ", "t", "h", "i", "s", " ", "h", "e", "l", "p", "s">>}

\* C20: when the provider's text contains a SELECT statement ended by a
\* terminator, what generate_sql returns depends only on the text up to and
\* including the first terminator after the first SELECT: the text cut there,
\* with anything else appended, gives the same outcome, statement and message.
C20_TailIgnored ==
    (Generated /\ HasTerminatedSelect(raw)) =>
        \A tail \in Tails :
            generate_sql_finish(TRUE, strip(HeadOf(raw) \o tail), NoMsg) = result

=============================================================================
